---- MODULE Spec2Model ----
(***************************************************************************)
(* Model of GCEWindowsAgent/addresses.go: the forwarded-IP reconciler of   *)
(* the Windows guest agent.  Strings are modelled by small integer codes   *)
(* (IP strings, address strings with a prefix length) and by short string  *)
(* tokens (hardware addresses, boolean attribute values).  Go slices are   *)
(* sequences; where the code aliases a backing array (line 188) the array  *)
(* is carried explicitly.                                                  *)
(***************************************************************************)
EXTENDS Integers, Sequences, FiniteSets, TLC

\* ---------------------------------------------------------------- bounds
NumIPs == 2
MaxLen == 2
MaxIfs == 2
MaxReg == 3
MaxWsfcLen == 3
MaxLog == 2

\* ------------------------------------------------------ string encodings
\* Forwarded-IP strings "10.0.0.<i>" are the codes 1..NumIPs.
IPs == 1..NumIPs

\* A token of an attribute string that is not part of an IP and not a comma.
Junk == 98
\* The "," of a comma-separated attribute string.
Comma == 99

\* net.Addr.String() of a bound address: "<ip>/<bits>", coded ip*100+bits.
AddrString(ip, bits) == ip * 100 + bits

\* strings.TrimSuffix(s, "/32") on an address string.
TrimSuffix32(s) == IF s >= 100 /\ s % 100 = 32 THEN s \div 100 ELSE s

\* Every interface carries a primary address with a shorter prefix; it is
\* bound by the platform, not by the agent.
PrimaryAddr == AddrString(9, 24)

\* ---------------------------------------------------------- seq helpers
Range(s) == {s[i] : i \in 1..Len(s)}

\* containsString(s, ss)
containsString(s, ss) == \E i \in 1..Len(ss) : ss[i] = s

SeqsUpTo(S, n) == UNION {[1..k -> S] : k \in 0..n}

RECURSIVE SelectNot(_, _)
\* the elements of s, in order, that are not in the list ex
SelectNot(s, ex) ==
    IF s = <<>> THEN <<>>
    ELSE IF containsString(Head(s), ex) THEN SelectNot(Tail(s), ex)
         ELSE <<Head(s)>> \o SelectNot(Tail(s), ex)

\* ------------------------------------------------------------ compareIPs
RECURSIVE toAddOf(_, _)
toAddOf(mdFwdIPs, cfgIPs) ==
    IF mdFwdIPs = <<>> THEN <<>>
    ELSE IF ~containsString(Head(mdFwdIPs), cfgIPs)
         THEN <<Head(mdFwdIPs)>> \o toAddOf(Tail(mdFwdIPs), cfgIPs)
         ELSE toAddOf(Tail(mdFwdIPs), cfgIPs)

RECURSIVE toRmAnyLive(_, _, _)
\* compareIPs without the ownership test of line 115
toRmAnyLive(regFwdIPs, mdFwdIPs, cfgIPs) ==
    IF cfgIPs = <<>> THEN <<>>
    ELSE IF ~containsString(Head(cfgIPs), mdFwdIPs)
         THEN <<Head(cfgIPs)>> \o toRmAnyLive(regFwdIPs, mdFwdIPs, Tail(cfgIPs))
         ELSE toRmAnyLive(regFwdIPs, mdFwdIPs, Tail(cfgIPs))

RECURSIVE toRmOf(_, _, _)
toRmOf(regFwdIPs, mdFwdIPs, cfgIPs) ==
    IF cfgIPs = <<>> THEN <<>>
    ELSE IF containsString(Head(cfgIPs), regFwdIPs) /\ ~containsString(Head(cfgIPs), mdFwdIPs)
         THEN <<Head(cfgIPs)>> \o toRmOf(regFwdIPs, mdFwdIPs, Tail(cfgIPs))
         ELSE toRmOf(regFwdIPs, mdFwdIPs, Tail(cfgIPs))

\* compareIPs testing the desired addresses against the registry value
compareIPsAddVsReg(regFwdIPs, mdFwdIPs, cfgIPs) ==
    [toAdd |-> toAddOf(mdFwdIPs, regFwdIPs),
     toRm  |-> toRmOf(regFwdIPs, mdFwdIPs, cfgIPs)]

\* compareIPs removing every live address that is not desired
compareIPsNoOwner(regFwdIPs, mdFwdIPs, cfgIPs) ==
    [toAdd |-> toAddOf(mdFwdIPs, cfgIPs),
     toRm  |-> toRmAnyLive(regFwdIPs, mdFwdIPs, cfgIPs)]

compareIPs(regFwdIPs, mdFwdIPs, cfgIPs) ==
    [toAdd |-> toAddOf(mdFwdIPs, cfgIPs),
     toRm  |-> toRmOf(regFwdIPs, mdFwdIPs, cfgIPs)]

\* -------------------------------------------------------- attribute text
\* strings.Split(s, ","): the entries between the commas of a token string;
\* the empty string yields one empty entry.
RECURSIVE SplitFrom(_, _, _)
SplitFrom(s, cur, acc) ==
    IF s = <<>> THEN Append(acc, cur)
    ELSE IF Head(s) = Comma THEN SplitFrom(Tail(s), <<>>, Append(acc, cur))
         ELSE SplitFrom(Tail(s), Append(cur, Head(s)), acc)

Split(s) == SplitFrom(s, <<>>, <<>>)

\* net.ParseIP(entry) != nil: the entry is exactly one IP string.
ParseIPOk(entry) == Len(entry) = 1 /\ entry[1] \in IPs

RECURSIVE validEntries(_)
\* lines 215-226: the entries kept in wsfcAddrs (as IP strings)
validEntries(entries) ==
    IF entries = <<>> THEN <<>>
    ELSE IF Len(Head(entries)) = 0 THEN validEntries(Tail(entries))
         ELSE IF ~ParseIPOk(Head(entries)) THEN validEntries(Tail(entries))
              ELSE <<Head(entries)[1]>> \o validEntries(Tail(entries))

wsfcAddrsOf(attr) == validEntries(Split(attr))

\* strconv.ParseBool
ParseBool(s) ==
    IF s \in {"1", "t", "T", "TRUE", "true", "True"} THEN [ok |-> TRUE, val |-> TRUE]
    ELSE IF s \in {"0", "f", "F", "FALSE", "false", "False"} THEN [ok |-> TRUE, val |-> FALSE]
         ELSE [ok |-> FALSE, val |-> FALSE]

\* ------------------------------------------------------- applyWSFCFilter
\* The filter with the enable flag tested before the address list.
applyWSFCFilterEnableFirst(md) ==
    LET wsfcAddrs == wsfcAddrsOf(md.WSFCAddresses)
        nis == md.NetworkInterfaces
        enabled == ParseBool(md.EnableWSFC)
    IN  IF enabled.ok /\ enabled.val
        THEN [idx \in 1..Len(nis) |-> [nis[idx] EXCEPT !.ForwardedIps = <<>>]]
        ELSE IF Len(wsfcAddrs) # 0
             THEN [idx \in 1..Len(nis) |->
                      [nis[idx] EXCEPT !.ForwardedIps = SelectNot(@, wsfcAddrs)]]
             ELSE nis

\* The NetworkInterfaces of a snapshot after the filter mutated them in place.
applyWSFCFilter(md) ==
    LET wsfcAddrs == wsfcAddrsOf(md.WSFCAddresses)
        nis == md.NetworkInterfaces
        enabled == ParseBool(md.EnableWSFC)
    IN  IF Len(wsfcAddrs) # 0
        THEN [idx \in 1..Len(nis) |->
                 [nis[idx] EXCEPT !.ForwardedIps = SelectNot(@, wsfcAddrs)]]
        ELSE IF enabled.ok /\ enabled.val
             THEN [idx \in 1..Len(nis) |-> [nis[idx] EXCEPT !.ForwardedIps = <<>>]]
             ELSE nis

\* ------------------------------------------------------- config resolver
\* (*ini.Key).Bool() of the local override file (line 55).
IniBool(s) ==
    IF s \in {"1", "t", "T", "true", "TRUE", "True", "YES", "yes", "Yes", "y", "ON", "on", "On"}
    THEN [ok |-> TRUE, val |-> TRUE]
    ELSE IF s \in {"0", "f", "F", "false", "FALSE", "False", "NO", "no", "No", "n", "OFF", "off", "Off"}
         THEN [ok |-> TRUE, val |-> FALSE]
         ELSE [ok |-> FALSE, val |-> FALSE]

NoAttrs == [WSFCAddresses |-> <<>>, EnableWSFC |-> "", DisableAddressManager |-> ""]

\* What an addresses value reads its settings from: a.config (sections wsfc
\* and addressManager), a.newMetadata.Instance.Attributes and
\* a.newMetadata.Project.Attributes.
NoSources ==
    [config |-> [wsfcAddresses |-> <<>>, wsfcEnable |-> "", disable |-> ""],
     instance |-> NoAttrs, project |-> NoAttrs]

parseWSFCAddresses(a) ==
    IF Len(a.config.wsfcAddresses) > 0 THEN a.config.wsfcAddresses
    ELSE IF Len(a.instance.WSFCAddresses) > 0 THEN a.instance.WSFCAddresses
         ELSE IF Len(a.project.WSFCAddresses) > 0 THEN a.project.WSFCAddresses
              ELSE <<>>

\* The resolver stopping at the first source that is present.
parseWSFCEnablePresent(a) ==
    IF a.config.wsfcEnable # "" THEN IniBool(a.config.wsfcEnable).val
    ELSE IF a.instance.EnableWSFC # "" THEN ParseBool(a.instance.EnableWSFC).val
         ELSE ParseBool(a.project.EnableWSFC).val

parseWSFCEnable(a) ==
    LET c == IniBool(a.config.wsfcEnable)
        i == ParseBool(a.instance.EnableWSFC)
        p == ParseBool(a.project.EnableWSFC)
    IN  IF c.ok THEN c.val
        ELSE IF i.ok THEN i.val
             ELSE IF p.ok THEN p.val
                  ELSE FALSE

\* disabled() that notifies without remembering what it returned.
disabledForgets(a, addressDisabled) ==
    LET c == ParseBool(a.config.disable)
        i == ParseBool(a.instance.DisableAddressManager)
        p == ParseBool(a.project.DisableAddressManager)
        ret == IF c.ok THEN c.val
               ELSE IF i.ok THEN i.val
                    ELSE IF p.ok THEN p.val
                         ELSE addressDisabled
    IN  [ret |-> ret, addressDisabled |-> addressDisabled, status |-> ret # addressDisabled]

\* Lines 82-105.  ret is the value returned, addressDisabled the package
\* variable after the deferred function ran, status whether logStatus was
\* called.
disabled(a, addressDisabled) ==
    LET c == ParseBool(a.config.disable)
        i == ParseBool(a.instance.DisableAddressManager)
        p == ParseBool(a.project.DisableAddressManager)
        ret == IF c.ok THEN c.val
               ELSE IF i.ok THEN i.val
                    ELSE IF p.ok THEN p.val
                         ELSE addressDisabled
    IN  [ret |-> ret, addressDisabled |-> ret, status |-> ret # addressDisabled]

\* reflect.DeepEqual on two NetworkInterfaces values.  A forwarded-IP list is
\* carried with isNil, which tells a nil slice from an empty one (isNil
\* implies an empty ForwardedIps), so that equality of the records is
\* DeepEqual.
DeepEqual(x, y) == x = y

\* diff() that keeps what it remembered.
diffKeepsMemo(a, old, new, oldWSFCAddresses, oldWSFCEnable) ==
    LET wsfcAddresses == parseWSFCAddresses(a)
        wsfcEnable == parseWSFCEnable(a)
    IN  [ret |-> ~DeepEqual(new, old) \/ wsfcEnable # oldWSFCEnable
                    \/ wsfcAddresses # oldWSFCAddresses,
         oldWSFCAddresses |-> oldWSFCAddresses, oldWSFCEnable |-> oldWSFCEnable]

\* Lines 70-80.
diff(a, old, new, oldWSFCAddresses, oldWSFCEnable) ==
    LET wsfcAddresses == parseWSFCAddresses(a)
        wsfcEnable == parseWSFCEnable(a)
    IN  [ret |-> ~DeepEqual(new, old) \/ wsfcEnable # oldWSFCEnable
                    \/ wsfcAddresses # oldWSFCAddresses,
         oldWSFCAddresses |-> wsfcAddresses, oldWSFCEnable |-> wsfcEnable]

\* The record of a call of diff() or disabled(), for the claims.
NoCall ==
    [op |-> "none", a |-> NoSources, old |-> <<>>, new |-> <<>>, ret |-> FALSE,
     status |-> FALSE, prevRet |-> FALSE, prevEnable |-> FALSE, prevAddresses |-> <<>>]

\* ------------------------------------------------------ hardware addresses
\* Declared hardware-address strings.  "AA" is the upper-case spelling of the
\* interface "aa"; "cc" parses but names no interface of the system; "zz"
\* does not parse.
RawMacs == {"AA", "cc", "zz"}

\* net.ParseMAC(s) followed by mac.String(): the canonical lower-case form.
ParseMAC(s) ==
    IF s = "AA" THEN [ok |-> TRUE, mac |-> "aa"]
    ELSE IF s = "cc" THEN [ok |-> TRUE, mac |-> s]
         ELSE [ok |-> FALSE, mac |-> ""]

CanonMacs == {"aa", "cc"}

\* net.Interfaces(): the interfaces of the system, by HardwareAddr.String().
SystemIfs == {"aa"}

\* ------------------------------------------------------------- snapshots
IpSeqs == SeqsUpTo(IPs, MaxLen)

BoolStrings == {"", "true", "false", "1", "yes"}

WsfcStrings == SeqsUpTo(IPs \cup {Comma, Junk}, MaxWsfcLen)

\* A declared interface the system does not have is never reconciled; its
\* list is kept short.
OffIpSeqs == {<<1>>}

IsSystemMac(raw) == raw = "AA"

NetIf == {ni \in [Mac : RawMacs, ForwardedIps : IpSeqs] :
             ~IsSystemMac(ni.Mac) => ni.ForwardedIps \in OffIpSeqs}

\* The metadata server declares every interface once.
DistinctMacs(nis) == \A i, j \in 1..Len(nis) : i # j => nis[i].Mac # nis[j].Mac

NetIfSeqs == {nis \in UNION {[1..k -> NetIf] : k \in 1..MaxIfs} : DistinctMacs(nis)}

\* ------------------------------------------------------------ apply loop
\* index (from 1) of the first element of reg equal to ip, 0 when there is none
IndexOf(ip, reg) ==
    IF containsString(ip, reg)
    THEN CHOOSE i \in 1..Len(reg) : reg[i] = ip /\ \A j \in 1..(i - 1) : reg[j] # ip
    ELSE 0

\* Lines 186-191, after a failed add of ip.  reg is the value to be written,
\* arr the backing array of regFwdIPs (its length never changes).  With i the
\* 0-based index of ip in reg, the code evaluates
\*     append(regFwdIPs[:i], regFwdIPs[i+1:]...)
\* which panics when i+1 > len(regFwdIPs), and otherwise shifts the tail of
\* the array one place down in place and yields its first len-1 elements.
dropFailedAdd(reg, arr, ip) ==
    LET i == IndexOf(ip, reg)
        n == Len(arr)
    IN  IF i = 0 THEN [reg |-> reg, arr |-> arr, panic |-> FALSE]
        ELSE IF i > n THEN [reg |-> reg, arr |-> arr, panic |-> TRUE]
             ELSE LET shifted == SubSeq(arr, 1, i - 1) \o SubSeq(arr, i + 1, n) \o <<arr[n]>>
                  IN  [reg |-> SubSeq(shifted, 1, n - 1), arr |-> shifted, panic |-> FALSE]

\* A failed remove that leaves the value to be written as it is.
forgetFailedRm(reg, ip) == reg

\* Line 198, after a failed remove of ip.
keepFailedRm(reg, ip) == Append(reg, ip)

\* addIPAddress succeeded: ip is bound (with a /32 prefix) to the interface.
BindIP(bound, ip) == IF containsString(ip, bound) THEN bound ELSE Append(bound, ip)

\* deleteIPAddress succeeded: ip is no longer bound.
UnbindIP(bound, ip) == SelectNot(bound, <<ip>>)

RECURSIVE addLoop(_, _, _, _)
\* Lines 183-193: the add attempts from position k of toAdd on; the attempts
\* at the positions of addFail fail.  A panic ends the loop (and the process).
addLoop(toAdd, k, addFail, st) ==
    IF k > Len(toAdd) \/ st.panic THEN st
    ELSE IF k \in addFail
         THEN LET d == dropFailedAdd(st.reg, st.arr, toAdd[k])
              IN  addLoop(toAdd, k + 1, addFail,
                          [st EXCEPT !.reg = d.reg, !.arr = d.arr, !.panic = d.panic,
                                     !.addFailed = Append(@, toAdd[k]),
                                     !.ops = Append(@, [op |-> "add", ip |-> toAdd[k], ok |-> FALSE])])
         ELSE addLoop(toAdd, k + 1, addFail,
                      [st EXCEPT !.bound = BindIP(@, toAdd[k]),
                                 !.addOk = Append(@, toAdd[k]),
                                 !.ops = Append(@, [op |-> "add", ip |-> toAdd[k], ok |-> TRUE])])

RECURSIVE rmLoop(_, _, _, _)
\* Lines 195-200: the remove attempts from position k of toRm on.
rmLoop(toRm, k, rmFail, st) ==
    IF k > Len(toRm) THEN st
    ELSE IF k \in rmFail
         THEN rmLoop(toRm, k + 1, rmFail,
                     [st EXCEPT !.reg = keepFailedRm(@, toRm[k]),
                                !.rmFailed = Append(@, toRm[k]),
                                !.ops = Append(@, [op |-> "rm", ip |-> toRm[k], ok |-> FALSE])])
         ELSE rmLoop(toRm, k + 1, rmFail,
                     [st EXCEPT !.bound = UnbindIP(@, toRm[k]),
                                !.rmOk = Append(@, toRm[k]),
                                !.ops = Append(@, [op |-> "rm", ip |-> toRm[k], ok |-> TRUE])])

\* Lines 172-175: the live address strings of an interface.
cfgIPsOf(bound) ==
    <<TrimSuffix32(PrimaryAddr)>> \o [i \in 1..Len(bound) |-> TrimSuffix32(AddrString(bound[i], 32))]

\* The apply loop recording only the addresses it added itself.
applyIfaceWritesAdded(regFwdIPs, mdFwdIPs, bound, addFail, rmFail) ==
    LET cmpd  == compareIPs(regFwdIPs, mdFwdIPs, cfgIPsOf(bound))
        st0   == [reg |-> cmpd.toAdd, arr |-> regFwdIPs, bound |-> bound, panic |-> FALSE,
                  addFailed |-> <<>>, addOk |-> <<>>, rmFailed |-> <<>>, rmOk |-> <<>>,
                  ops |-> <<>>]
        st1   == addLoop(cmpd.toAdd, 1, addFail, st0)
        st2   == IF st1.panic THEN st1 ELSE rmLoop(cmpd.toRm, 1, rmFail, st1)
    IN  [toAdd |-> cmpd.toAdd, toRm |-> cmpd.toRm, reg |-> st2.reg, bound |-> st2.bound,
         panic |-> st2.panic, addFailed |-> st2.addFailed, addOk |-> st2.addOk,
         rmFailed |-> st2.rmFailed, rmOk |-> st2.rmOk, ops |-> st2.ops]

\* Lines 177-204 for one interface: diff, add loop, remove loop.  The result
\* carries the value handed to writeRegMultiString unless the add loop panicked.
applyIface(regFwdIPs, mdFwdIPs, bound, addFail, rmFail) ==
    LET cmpd  == compareIPs(regFwdIPs, mdFwdIPs, cfgIPsOf(bound))
        st0   == [reg |-> mdFwdIPs, arr |-> regFwdIPs, bound |-> bound, panic |-> FALSE,
                  addFailed |-> <<>>, addOk |-> <<>>, rmFailed |-> <<>>, rmOk |-> <<>>,
                  ops |-> <<>>]
        st1   == addLoop(cmpd.toAdd, 1, addFail, st0)
        st2   == IF st1.panic THEN st1 ELSE rmLoop(cmpd.toRm, 1, rmFail, st1)
    IN  [toAdd |-> cmpd.toAdd, toRm |-> cmpd.toRm, reg |-> st2.reg, bound |-> st2.bound,
         panic |-> st2.panic, addFailed |-> st2.addFailed, addOk |-> st2.addOk,
         rmFailed |-> st2.rmFailed, rmOk |-> st2.rmOk, ops |-> st2.ops]

\* ----------------------------------------------------------------- state
VARIABLES
    newMetadata,   \* a.newMetadata: NetworkInterfaces, Instance.Attributes
    registry,      \* the ForwardedIps registry key: canonical mac -> record
    live,          \* per system interface, the /32 addresses bound to it
    badMAC,        \* the package variable badMAC
    pc,            \* "idle", "loop" (inside set()), "crashed"
    idx,           \* position of set()'s loop over NetworkInterfaces
    result,        \* what the last call of set() returned
    reports,       \* what the running call of set() did for each interface so far
    faulty,        \* whether OS calls may still fail
    stable,        \* whether the snapshots and the interfaces stopped changing
    track,         \* which history the run keeps: "none" (the attempts of each pass),
                   \* "added", "owned", "lastOk"
    agentAdded,    \* history: the bound addresses an addIPAddress of the agent bound
    lostWrite,     \* history ("owned"): whether a registry write ever failed
    lastOk,        \* history: the last fully successful pass per interface
    cmp,           \* harness of compareIPs
    flt,           \* harness of applyWSFCFilter
    mgr,           \* the caller's side: config, attributes, diff() and disabled() memory
    logged         \* history: per declared MAC string, its bad-MAC error log emissions

vars == <<newMetadata, registry, live, badMAC, pc, idx, result, reports, faulty,
          stable, track, agentAdded, lostWrite, lastOk, cmp, flt, mgr, logged>>

NoRecord == [exists |-> FALSE, val |-> <<>>]

NoPass == [ok |-> FALSE, desired |-> <<>>, written |-> <<>>]

cmpIdle == [done |-> FALSE, regFwdIPs |-> <<>>, mdFwdIPs |-> <<>>, cfgIPs |-> <<>>,
            toAdd |-> <<>>, toRm |-> <<>>]

fltIdle == [done |-> FALSE, before |-> <<>>, after |-> <<>>, WSFCAddresses |-> <<>>,
            EnableWSFC |-> ""]

\* The caller's side before the first cycle: no local override, no attribute,
\* the package variables of lines 28-31 at their initial values.
mgrIdle ==
    [phase |-> "off", a |-> NoSources, old |-> <<>>, new |-> <<>>,
     oldWSFCAddresses |-> <<>>, oldWSFCEnable |-> FALSE, addressDisabled |-> FALSE,
     hist |-> [ret |-> FALSE, enable |-> FALSE, addresses |-> <<>>], last |-> NoCall,
     gate |-> "none", same |-> FALSE, ran |-> FALSE]

\* The state after the process started on a freshly installed instance: no
\* registry value, nothing bound but the primary addresses, a first snapshot
\* that declares no forwarded IP.
InitSet ==
    /\ \E nis \in NetIfSeqs :
          /\ \A i \in 1..Len(nis) : nis[i].ForwardedIps = <<1>>
          /\ newMetadata = [NetworkInterfaces |-> nis, WSFCAddresses |-> <<>>, EnableWSFC |-> ""]
    /\ registry = [m \in CanonMacs |-> NoRecord]
    /\ live = [m \in SystemIfs |-> <<>>]
    /\ badMAC = <<>>
    /\ pc = "idle"
    /\ idx = 0
    /\ result = "none"
    /\ reports = <<>>
    /\ faulty = TRUE
    /\ stable = FALSE
    /\ agentAdded = [m \in SystemIfs |-> {}]
    /\ lostWrite = FALSE
    /\ lastOk = [m \in SystemIfs |-> NoPass]
    /\ logged = [raw \in RawMacs |-> 0]

Init == InitSet /\ track = "none" /\ cmp = cmpIdle /\ flt = fltIdle /\ mgr = mgrIdle

\* --------------------------------------------------------------- actions
\* What set() records for an interface it skipped (kind "parse", "read",
\* "noiface", "addrs") or took to the diff step (kind "diff", "panic").
SkipReport(kind, ni) ==
    [kind |-> kind, Mac |-> ni.Mac, desired |-> ni.ForwardedIps, regFwdIPs |-> <<>>,
     toAdd |-> <<>>, toRm |-> <<>>, addFailed |-> <<>>, addOk |-> <<>>,
     rmFailed |-> <<>>, rmOk |-> <<>>, written |-> <<>>, writeOk |-> FALSE,
     ownedBefore |-> {}, prev |-> NoPass, ops |-> <<>>,
     known |-> track = "none" /\ containsString(ni.Mac, badMAC)]

\* The failover attributes (WSFCAddresses, EnableWSFC) of the snapshots the
\* reconciliation runs on: none, an address list, the bare enable flag.
FetchAttrs == {<< <<>>, "" >>, << <<1>>, "true" >>}

\* The snapshots the caller may store in a.newMetadata.  The interfaces of an
\* instance do not change while it runs.
ListsFor(raw) == IF IsSystemMac(raw) THEN IpSeqs ELSE OffIpSeqs

Fetched(md) ==
    LET old == md.NetworkInterfaces
        n == Len(old)
    IN  {[NetworkInterfaces |-> [i \in 1..n |-> [Mac |-> old[i].Mac, ForwardedIps |-> f[i]]],
          WSFCAddresses |-> at[1], EnableWSFC |-> at[2]] :
            f \in {g \in [1..n -> IpSeqs] : \A i \in 1..n : g[i] \in ListsFor(old[i].Mac)},
            at \in FetchAttrs}

\* set() filtering the snapshot before it enumerates the interfaces.
SetBeginFiltersFirst ==
    /\ pc = "idle"
    /\ \E md \in (IF stable THEN {newMetadata} ELSE Fetched(newMetadata)) :
          /\ newMetadata' = [md EXCEPT !.NetworkInterfaces = applyWSFCFilter(md)]
          /\ \/ /\ faulty
                /\ result' = "err"
                /\ UNCHANGED <<pc, idx>>
             \/ /\ pc' = "loop"
                /\ idx' = 1
                /\ result' = "none"
    /\ reports' = <<>>
    /\ UNCHANGED <<registry, live, badMAC, faulty, stable, track, agentAdded, lostWrite, lastOk, cmp, flt, mgr, logged>>

\* Lines 126-131: the caller stored a new snapshot and called set(), which
\* enumerates the interfaces and then filters the snapshot in place.
SetBegin ==
    /\ pc = "idle"
    /\ \E md \in (IF stable THEN {newMetadata} ELSE Fetched(newMetadata)) :
          \/ /\ faulty
             /\ newMetadata' = md
             /\ result' = "err"
             /\ UNCHANGED <<pc, idx>>
          \/ /\ newMetadata' = [md EXCEPT !.NetworkInterfaces = applyWSFCFilter(md)]
             /\ pc' = "loop"
             /\ idx' = 1
             /\ result' = "none"
    /\ reports' = <<>>
    /\ UNCHANGED <<registry, live, badMAC, faulty, stable, track, agentAdded, lostWrite, lastOk, cmp, flt, mgr, logged>>

\* A bad MAC string that is never remembered.
noteBadMACForgets(raw) == badMAC

\* Lines 136-139 and 159-162.
noteBadMAC(raw) == IF containsString(raw, badMAC) THEN badMAC ELSE Append(badMAC, raw)

\* A skipped interface that ends the loop.
SkipAborts(kind, ni, bad) ==
    /\ reports' = Append(reports, SkipReport(kind, ni))
    /\ badMAC' = IF bad THEN noteBadMAC(ni.Mac) ELSE badMAC
    /\ idx' = Len(newMetadata.NetworkInterfaces) + 1
    /\ lastOk' = lastOk
    /\ logged' = IF bad /\ ~containsString(ni.Mac, badMAC) /\ logged[ni.Mac] < MaxLog
                 THEN [logged EXCEPT ![ni.Mac] = @ + 1] ELSE logged
    /\ UNCHANGED <<newMetadata, registry, live, pc, result, faulty, stable, track, agentAdded,
                   lostWrite, cmp, flt, mgr>>

\* One skipped interface: the loop goes on with the next one.
Skip(kind, ni, bad) ==
    /\ reports' = Append(reports, SkipReport(kind, ni))
    /\ badMAC' = IF bad THEN noteBadMAC(ni.Mac) ELSE badMAC
    /\ idx' = idx + 1
    /\ lastOk' = [m \in SystemIfs |->
                    IF track = "lastOk" /\ ParseMAC(ni.Mac).ok /\ ParseMAC(ni.Mac).mac = m
                    THEN NoPass ELSE lastOk[m]]
    /\ logged' = IF bad /\ ~containsString(ni.Mac, badMAC) /\ logged[ni.Mac] < MaxLog
                 THEN [logged EXCEPT ![ni.Mac] = @ + 1] ELSE logged
    /\ UNCHANGED <<newMetadata, registry, live, pc, result, faulty, stable, track, agentAdded,
                   lostWrite, cmp, flt, mgr>>

\* Lines 172-204: the interface reached the diff step.
Apply(ni, mac, addFail, rmFail, writeErr) ==
    LET regFwdIPs == IF registry[mac].exists THEN registry[mac].val ELSE <<>>
        r == applyIface(regFwdIPs, ni.ForwardedIps, live[mac], addFail, rmFail)
        report == [kind |-> IF r.panic THEN "panic" ELSE "diff", Mac |-> ni.Mac,
                   desired |-> ni.ForwardedIps, regFwdIPs |-> regFwdIPs,
                   toAdd |-> r.toAdd, toRm |-> r.toRm,
                   addFailed |-> r.addFailed, addOk |-> r.addOk,
                   rmFailed |-> r.rmFailed, rmOk |-> r.rmOk,
                   written |-> IF r.panic THEN <<>> ELSE r.reg,
                   writeOk |-> ~r.panic /\ ~writeErr,
                   ownedBefore |-> agentAdded[mac], prev |-> lastOk[mac],
                   ops |-> IF track # "none" THEN <<>>
                           ELSE IF r.panic THEN r.ops
                                ELSE Append(r.ops, [op |-> "write", ip |-> 0, ok |-> ~writeErr]),
                   known |-> FALSE]
        clean == ~r.panic /\ Len(r.addFailed) = 0 /\ Len(r.rmFailed) = 0
    IN  /\ addFail \subseteq 1..Len(r.toAdd)
        /\ rmFail \subseteq 1..Len(r.toRm)
        /\ (addFail # {} \/ rmFail # {} \/ writeErr) => faulty
        /\ r.panic => ~writeErr /\ rmFail = {} /\ Len(r.addFailed) = Cardinality(addFail)
        /\ Len(r.reg) <= MaxReg
        /\ reports' = Append(reports, report)
        /\ live' = [live EXCEPT ![mac] = r.bound]
        /\ lostWrite' = (lostWrite \/ (track = "owned" /\ writeErr))
        /\ agentAdded' = IF track \in {"added", "owned"}
                         THEN [agentAdded EXCEPT ![mac] = (@ \cup Range(r.addOk)) \ Range(r.rmOk)]
                         ELSE agentAdded
        /\ registry' = IF r.panic \/ writeErr THEN registry
                       ELSE [registry EXCEPT ![mac] = [exists |-> TRUE, val |-> r.reg]]
        /\ lastOk' = IF track = "lastOk"
                     THEN [lastOk EXCEPT ![mac] =
                              IF clean THEN [ok |-> TRUE, desired |-> ni.ForwardedIps,
                                             written |-> report.written]
                              ELSE NoPass]
                     ELSE lastOk
        /\ pc' = IF r.panic THEN "crashed" ELSE pc
        /\ result' = IF r.panic THEN "panic" ELSE result
        /\ idx' = IF r.panic THEN idx ELSE idx + 1
        /\ UNCHANGED <<newMetadata, badMAC, faulty, stable, track, cmp, flt, mgr, logged>>

\* Lines 133-205: one pass of set()'s loop.
SetIface ==
    /\ pc = "loop"
    /\ idx <= Len(newMetadata.NetworkInterfaces)
    /\ LET ni == newMetadata.NetworkInterfaces[idx]
           p  == ParseMAC(ni.Mac)
       IN  IF ~p.ok
           THEN Skip("parse", ni, TRUE)
           ELSE \/ /\ faulty
                   /\ Skip("read", ni, FALSE)
                \/ IF p.mac \notin SystemIfs
                   THEN Skip("noiface", ni, TRUE)
                   ELSE \/ /\ faulty
                           /\ Skip("addrs", ni, FALSE)
                        \/ \E addFail \in SUBSET (1..MaxLen), rmFail \in SUBSET (1..NumIPs),
                              writeErr \in BOOLEAN :
                              Apply(ni, p.mac, addFail, rmFail, writeErr)

\* Line 207: the loop is over.
SetReturn ==
    /\ pc = "loop"
    /\ idx > Len(newMetadata.NetworkInterfaces)
    /\ result' = "nil"
    /\ pc' = "idle"
    /\ reports' = <<>>
    /\ UNCHANGED <<newMetadata, registry, live, badMAC, idx, faulty, stable, track, agentAdded, lostWrite, lastOk, cmp, flt, mgr, logged>>

\* Something other than the agent binds a /32 address to an interface or
\* unbinds one while no reconciliation runs.
External ==
    /\ pc = "idle"
    /\ ~stable
    /\ \E m \in SystemIfs, ip \in IPs :
          /\ live' = [live EXCEPT ![m] = IF containsString(ip, @) THEN UnbindIP(@, ip)
                                          ELSE BindIP(@, ip)]
          /\ agentAdded' = IF track \in {"added", "owned"} THEN [agentAdded EXCEPT ![m] = @ \ {ip}]
                           ELSE agentAdded
          /\ lastOk' = IF track = "lastOk" THEN [lastOk EXCEPT ![m] = NoPass] ELSE lastOk
    /\ UNCHANGED <<newMetadata, registry, badMAC, pc, idx, result, reports, faulty, stable, track,
                   lostWrite, cmp, flt, mgr, logged>>

Next == SetBegin \/ SetIface \/ SetReturn \/ External

Spec == Init /\ [][Next]_vars

\* The same runs, keeping the history of the addresses the agent bound.
InitOwn == InitSet /\ track = "added" /\ cmp = cmpIdle /\ flt = fltIdle /\ mgr = mgrIdle

SpecOwn == InitOwn /\ [][Next]_vars

\* The runs of an instance that declares one interface, keeping the history
\* of the last successful pass.
InitIdem ==
    /\ InitSet /\ track = "lastOk" /\ cmp = cmpIdle /\ flt = fltIdle /\ mgr = mgrIdle
    /\ Len(newMetadata.NetworkInterfaces) = 1

SpecIdem == InitIdem /\ [][Next]_vars

\* ------------------------------------------------------------ convergence
\* From now on every fetched snapshot declares what the last one declared (the
\* filter yields the lists it yielded before) and nothing but the agent
\* touches the interfaces.
Settle ==
    /\ pc = "idle"
    /\ ~stable
    /\ stable' = TRUE
    /\ UNCHANGED <<newMetadata, registry, live, badMAC, pc, idx, result, reports, faulty,
                   track, agentAdded, lostWrite, lastOk, cmp, flt, mgr, logged>>

\* From now on every OS call succeeds.
Heal ==
    /\ faulty
    /\ faulty' = FALSE
    /\ UNCHANGED <<newMetadata, registry, live, badMAC, pc, idx, result, reports, stable,
                   track, agentAdded, lostWrite, lastOk, cmp, flt, mgr, logged>>

NextLive == Next \/ Settle \/ Heal

\* An instance with its one interface declared.
InitLive ==
    /\ InitSet /\ track = "owned" /\ cmp = cmpIdle /\ flt = fltIdle /\ mgr = mgrIdle
    /\ Len(newMetadata.NetworkInterfaces) = 1
    /\ newMetadata.NetworkInterfaces[1].Mac = "AA"

\* set() runs to its end, and the caller invokes it again and again.
LiveSpec ==
    /\ InitLive
    /\ [][NextLive]_vars
    /\ WF_vars(SetBegin) /\ WF_vars(SetIface) /\ WF_vars(SetReturn)

\* ------------------------------------------------- pure-function harnesses
\* The reconciler at rest, for the runs that only evaluate a function.
SetAtRest ==
    /\ newMetadata = [NetworkInterfaces |-> <<>>, WSFCAddresses |-> <<>>, EnableWSFC |-> ""]
    /\ registry = [m \in CanonMacs |-> NoRecord]
    /\ live = [m \in SystemIfs |-> <<>>]
    /\ badMAC = <<>>
    /\ pc = "idle"
    /\ idx = 0
    /\ result = "none"
    /\ reports = <<>>
    /\ faulty = TRUE
    /\ stable = FALSE
    /\ track = "none"
    /\ agentAdded = [m \in SystemIfs |-> {}]
    /\ lostWrite = FALSE
    /\ lastOk = [m \in SystemIfs |-> NoPass]
    /\ logged = [raw \in RawMacs |-> 0]

setVars == <<newMetadata, registry, live, badMAC, pc, idx, result, reports, faulty,
             stable, track, agentAdded, lostWrite, lastOk, logged>>

\* compareIPs on every triple of lists.
InitCompare ==
    /\ SetAtRest
    /\ flt = fltIdle
    /\ mgr = mgrIdle
    /\ \E r \in IpSeqs, m \in IpSeqs, c \in IpSeqs :
          cmp = [cmpIdle EXCEPT !.regFwdIPs = r, !.mdFwdIPs = m, !.cfgIPs = c]

Compare ==
    /\ ~cmp.done
    /\ LET out == compareIPs(cmp.regFwdIPs, cmp.mdFwdIPs, cmp.cfgIPs)
       IN  cmp' = [cmp EXCEPT !.done = TRUE, !.toAdd = out.toAdd, !.toRm = out.toRm]
    /\ UNCHANGED <<setVars, flt, mgr>>

SpecCompare == InitCompare /\ [][Compare]_vars

\* applyWSFCFilter on every snapshot.
FltNetIfSeqs == UNION {[1..k -> [Mac : {"AA"}, ForwardedIps : IpSeqs]] : k \in 1..MaxIfs}

InitFilter ==
    /\ SetAtRest
    /\ cmp = cmpIdle
    /\ mgr = mgrIdle
    /\ \E nis \in FltNetIfSeqs, w \in WsfcStrings, e \in BoolStrings :
          flt = [fltIdle EXCEPT !.before = nis, !.WSFCAddresses = w, !.EnableWSFC = e]

Filter ==
    /\ ~flt.done
    /\ flt' = [flt EXCEPT !.done = TRUE,
                          !.after = applyWSFCFilter([NetworkInterfaces |-> flt.before,
                                                     WSFCAddresses |-> flt.WSFCAddresses,
                                                     EnableWSFC |-> flt.EnableWSFC])]
    /\ UNCHANGED <<setVars, cmp, mgr>>

SpecFilter == InitFilter /\ [][Filter]_vars

\* ------------------------------------------------ resolver and gate calls
\* The strings a boolean setting may hold: absent, parseable by every parser,
\* parseable by the ini parser only, parseable by none.
BoolSrc == {"", "true", "false", "yes"}

CfgBoolSrc == {"", "false", "yes", "maybe"}

\* The NetworkInterfaces values diff() compares: one interface whose
\* forwarded-IP list is nil, empty or holds addresses.
DiffLists ==
    {[isNil |-> TRUE, ForwardedIps |-> <<>>]} \cup
    {[isNil |-> FALSE, ForwardedIps |-> l] : l \in {<<>>, <<1, 2>>, <<2, 1>>}}

DiffNis ==
    {<<[Mac |-> "AA", ForwardedIps |-> l.ForwardedIps, isNil |-> l.isNil]>> : l \in DiffLists}

InitCalls ==
    /\ SetAtRest
    /\ cmp = cmpIdle
    /\ flt = fltIdle
    /\ mgr = [mgrIdle EXCEPT !.phase = "calls"]

\* disabled() on any three sources of the flag.
CallDisabled ==
    /\ mgr.phase = "calls"
    /\ \E c \in BoolSrc, i \in BoolSrc, p \in BoolSrc :
          LET a == [NoSources EXCEPT !.config.disable = c,
                                     !.instance.DisableAddressManager = i,
                                     !.project.DisableAddressManager = p]
              d == disabled(a, mgr.addressDisabled)
          IN  mgr' = [mgr EXCEPT !.a = a, !.addressDisabled = d.addressDisabled,
                                 !.hist.ret = d.ret,
                                 !.last = [NoCall EXCEPT !.op = "disabled", !.a = a,
                                              !.ret = d.ret, !.status = d.status,
                                              !.prevRet = mgr.hist.ret]]
    /\ UNCHANGED <<setVars, cmp, flt>>

\* parseWSFCEnable() on any three sources of the flag.
CallParseWSFCEnable ==
    /\ mgr.phase = "calls"
    /\ \E c \in CfgBoolSrc, i \in BoolSrc, p \in BoolSrc :
          LET a == [NoSources EXCEPT !.config.wsfcEnable = c,
                                     !.instance.EnableWSFC = i,
                                     !.project.EnableWSFC = p]
          IN  mgr' = [mgr EXCEPT !.a = a,
                                 !.last = [NoCall EXCEPT !.op = "enable", !.a = a,
                                              !.ret = parseWSFCEnable(a)]]
    /\ UNCHANGED <<setVars, cmp, flt>>

\* diff() on any old and new interface lists and failover settings.
CallDiff ==
    /\ mgr.phase = "diff"
    /\ \E ce \in {"", "yes"}, ie \in {"", "false"},
          ca \in {<<>>, <<1>>}, pa \in {<<>>, <<2>>},
          old \in DiffNis, new \in DiffNis :
          LET a == [NoSources EXCEPT !.config.wsfcEnable = ce, !.config.wsfcAddresses = ca,
                                     !.instance.EnableWSFC = ie,
                                     !.project.WSFCAddresses = pa]
              d == diff(a, old, new, mgr.oldWSFCAddresses, mgr.oldWSFCEnable)
          IN  mgr' = [mgr EXCEPT !.a = a, !.old = old, !.new = new,
                                 !.oldWSFCAddresses = d.oldWSFCAddresses,
                                 !.oldWSFCEnable = d.oldWSFCEnable,
                                 !.hist.enable = parseWSFCEnable(a),
                                 !.hist.addresses = parseWSFCAddresses(a),
                                 !.last = [NoCall EXCEPT !.op = "diff", !.a = a,
                                              !.old = old, !.new = new, !.ret = d.ret,
                                              !.prevEnable = mgr.hist.enable,
                                              !.prevAddresses = mgr.hist.addresses]]
    /\ UNCHANGED <<setVars, cmp, flt>>

NextCalls == CallDisabled \/ CallParseWSFCEnable

SpecCalls == InitCalls /\ [][NextCalls]_vars

InitDiff ==
    /\ SetAtRest
    /\ cmp = cmpIdle
    /\ flt = fltIdle
    /\ mgr = [mgrIdle EXCEPT !.phase = "diff"]

SpecDiff == InitDiff /\ [][CallDiff]_vars

\* The filter of set() next to the resolver, on every combination of sources.
AddrSrc == {<<>>, <<1>>, <<2>>}

InitResolve ==
    /\ SetAtRest
    /\ cmp = cmpIdle
    /\ \E ca \in AddrSrc, ia \in AddrSrc, pa \in AddrSrc,
          ce \in {"", "true"}, ie \in {"", "true"}, pe \in {"", "true"},
          nis \in FltNetIfSeqs :
          /\ mgr = [mgrIdle EXCEPT !.phase = "resolve",
                       !.a = [NoSources EXCEPT
                                 !.config.wsfcAddresses = ca, !.config.wsfcEnable = ce,
                                 !.instance.WSFCAddresses = ia, !.instance.EnableWSFC = ie,
                                 !.project.WSFCAddresses = pa, !.project.EnableWSFC = pe]]
          /\ flt = [fltIdle EXCEPT !.before = nis, !.WSFCAddresses = ia, !.EnableWSFC = ie]

SpecResolve == InitResolve /\ [][Filter]_vars

\* ------------------------------------------------------------ the cycle
\* The caller of the reconciler: each cycle it fetches a snapshot, keeps the
\* snapshot of the cycle before as the old one, and calls disabled(), then
\* diff(), then set(), stopping at the first gate that says so.
CycleLists == {<<>>, <<1>>, <<2>>, <<1, 2>>}

\* The interface lists of a fetched snapshot: one interface, its forwarded-IP
\* list decoded as nil (absent) or as a list.
CycleNis ==
    {<<[Mac |-> "AA", ForwardedIps |-> l, isNil |-> FALSE]>> : l \in CycleLists}
    \cup {<<[Mac |-> "AA", ForwardedIps |-> <<>>, isNil |-> TRUE]>>}

\* Lines 228-246 as they leave the lists of a snapshot: the lists of md are
\* the filtered ones, nis carries what was nil before.
FilteredInPlace(md, nis) ==
    LET listed == Len(wsfcAddrsOf(md.WSFCAddresses)) # 0
        enabled == ParseBool(md.EnableWSFC)
    IN  [i \in 1..Len(nis) |->
            [Mac |-> nis[i].Mac,
             ForwardedIps |-> md.NetworkInterfaces[i].ForwardedIps,
             isNil |-> IF listed THEN md.NetworkInterfaces[i].ForwardedIps = <<>>
                       ELSE IF enabled.ok /\ enabled.val THEN TRUE
                            ELSE nis[i].isNil]]

InitCycle ==
    /\ newMetadata = [NetworkInterfaces |-> <<>>, WSFCAddresses |-> <<>>, EnableWSFC |-> ""]
    /\ registry = [m \in CanonMacs |-> NoRecord]
    /\ live = [m \in SystemIfs |-> <<>>]
    /\ badMAC = <<>>
    /\ pc = "idle"
    /\ idx = 0
    /\ result = "none"
    /\ reports = <<>>
    /\ faulty = TRUE
    /\ stable = TRUE
    /\ track = "none"
    /\ agentAdded = [m \in SystemIfs |-> {}]
    /\ lostWrite = FALSE
    /\ lastOk = [m \in SystemIfs |-> NoPass]
    /\ logged = [raw \in RawMacs |-> 0]
    /\ cmp = cmpIdle
    /\ flt = fltIdle
    /\ mgr = [mgrIdle EXCEPT !.phase = "wait"]

\* The cycle before is over; the caller fetches the next snapshot and keeps
\* the one it had, as set() left it, as the old one.
Fetch ==
    /\ pc = "idle"
    /\ \/ mgr.phase = "wait"
       \/ mgr.phase = "set" /\ result # "none"
    /\ \E nis \in CycleNis, at \in FetchAttrs, dis \in {"", "true"} :
          LET a == [NoSources EXCEPT !.instance.WSFCAddresses = at[1],
                                     !.instance.EnableWSFC = at[2],
                                     !.instance.DisableAddressManager = dis]
              filtered == mgr.phase = "set" /\ result = "nil"
          IN  /\ newMetadata' = [NetworkInterfaces |->
                                    [i \in 1..Len(nis) |-> [Mac |-> nis[i].Mac,
                                                            ForwardedIps |-> nis[i].ForwardedIps]],
                                 WSFCAddresses |-> at[1], EnableWSFC |-> at[2]]
              /\ mgr' = [mgr EXCEPT !.phase = "gate", !.a = a, !.new = nis,
                                    !.old = IF filtered THEN FilteredInPlace(newMetadata, mgr.new)
                                            ELSE mgr.new,
                                    !.gate = "none",
                                    !.ran = filtered,
                                    !.same = (nis = mgr.new /\ a = mgr.a)]
    /\ result' = "none"
    /\ reports' = <<>>
    /\ UNCHANGED <<registry, live, badMAC, pc, idx, faulty, stable, track, agentAdded,
                   lostWrite, lastOk, logged, cmp, flt>>

\* The caller going on to diff() whatever disabled() returned.
GateDisabledIgnored ==
    /\ mgr.phase = "gate"
    /\ LET d == disabled(mgr.a, mgr.addressDisabled)
       IN  mgr' = [mgr EXCEPT !.addressDisabled = d.addressDisabled,
                              !.gate = IF d.ret THEN "disabled" ELSE "none",
                              !.phase = "diff"]
    /\ UNCHANGED <<setVars, cmp, flt>>

\* The caller calls disabled(); the cycle ends when it returns true.
GateDisabled ==
    /\ mgr.phase = "gate"
    /\ LET d == disabled(mgr.a, mgr.addressDisabled)
       IN  mgr' = [mgr EXCEPT !.addressDisabled = d.addressDisabled,
                              !.gate = IF d.ret THEN "disabled" ELSE "none",
                              !.phase = IF d.ret THEN "wait" ELSE "diff"]
    /\ UNCHANGED <<setVars, cmp, flt>>

\* The caller calls diff(); the cycle ends when it returns false.
GateDiff ==
    /\ mgr.phase = "diff"
    /\ LET d == diff(mgr.a, mgr.old, mgr.new, mgr.oldWSFCAddresses, mgr.oldWSFCEnable)
       IN  mgr' = [mgr EXCEPT !.oldWSFCAddresses = d.oldWSFCAddresses,
                              !.oldWSFCEnable = d.oldWSFCEnable,
                              !.last = [NoCall EXCEPT !.op = "diff", !.ret = d.ret],
                              !.phase = IF d.ret THEN "set" ELSE "wait"]
    /\ UNCHANGED <<setVars, cmp, flt>>

\* The caller calls set() on the snapshot it fetched.
CallSet ==
    /\ mgr.phase = "set"
    /\ result = "none"
    /\ SetBegin

NextCycle == Fetch \/ GateDisabled \/ GateDiff \/ CallSet \/ SetIface \/ SetReturn

SpecCycle == InitCycle /\ [][NextCycle]_vars

\* ---------------------------------------------------------------- claims
\* C1: the remove-set of compareIPs holds only addresses that are both in the
\* persisted list and in the live list, and no address of the desired list.
C1_RemoveOnlyOwned ==
    cmp.done =>
        /\ Range(cmp.toRm) \subseteq (Range(cmp.regFwdIPs) \cap Range(cmp.cfgIPs))
        /\ Range(cmp.toRm) \cap Range(cmp.mdFwdIPs) = {}

\* A live address that is persisted is removed while a live address that is
\* not persisted, and not desired either, is left alone.
C1_Witness ==
    /\ cmp.done
    /\ cmp.toRm # <<>>
    /\ \E ip \in Range(cmp.cfgIPs) :
          ip \notin Range(cmp.regFwdIPs) /\ ip \notin Range(cmp.mdFwdIPs)

\* C9: the add-set of compareIPs is exactly the desired addresses that are not
\* live (as sets), and every persisted list yields the same add-set.
C9_AddIsDesiredMinusLive ==
    cmp.done =>
        /\ Range(cmp.toAdd) = Range(cmp.mdFwdIPs) \ Range(cmp.cfgIPs)
        /\ \A r \in IpSeqs : compareIPs(r, cmp.mdFwdIPs, cmp.cfgIPs).toAdd = cmp.toAdd

\* A desired address that is persisted but not live is added, next to a
\* desired address that is live and is not.
C9_Witness ==
    /\ cmp.done
    /\ \E ip \in Range(cmp.toAdd) : ip \in Range(cmp.regFwdIPs)
    /\ \E ip \in Range(cmp.mdFwdIPs) : ip \in Range(cmp.cfgIPs)

\* The addresses of a failover-address string: the IPs that stand alone
\* between two commas (or the ends) of the string.
ListedIPs(w) ==
    {ip \in IPs : \E i \in 1..Len(w) :
        /\ w[i] = ip
        /\ (i = 1 \/ w[i - 1] = Comma)
        /\ (i = Len(w) \/ w[i + 1] = Comma)}

KeepUnlisted(ips, listed) == SelectSeq(ips, LAMBDA ip : ip \notin listed)

\* C10: with a non-empty failover-address list every interface loses exactly
\* its listed forwarded IPs, whatever the enable flag; with an empty list and
\* a true enable flag every forwarded-IP list is cleared; otherwise nothing
\* changes.
C10_FilterPrecedence ==
    flt.done =>
        LET listed == ListedIPs(flt.WSFCAddresses)
            enabled == flt.EnableWSFC \in {"1", "t", "T", "TRUE", "true", "True"}
        IN  /\ Len(flt.after) = Len(flt.before)
            /\ \A i \in 1..Len(flt.before) :
                  /\ flt.after[i].Mac = flt.before[i].Mac
                  /\ flt.after[i].ForwardedIps =
                        IF listed # {} THEN KeepUnlisted(flt.before[i].ForwardedIps, listed)
                        ELSE IF enabled THEN <<>>
                             ELSE flt.before[i].ForwardedIps

\* A list and a true enable flag together: an interface keeps an unlisted
\* address and loses a listed one.
C10_Witness ==
    /\ flt.done
    /\ ParseBool(flt.EnableWSFC).val
    /\ ListedIPs(flt.WSFCAddresses) # {}
    /\ \E i \in 1..Len(flt.before) :
          /\ flt.after[i].ForwardedIps # <<>>
          /\ Len(flt.after[i].ForwardedIps) < Len(flt.before[i].ForwardedIps)

\* The interfaces the running call of set() took to the diff step.
DiffReports == {i \in 1..Len(reports) : reports[i].kind = "diff"}

MacOf(r) == ParseMAC(r.Mac).mac

\* C2: the value written for an interface holds every desired address whose
\* add did not fail in the cycle.
C2_WrittenKeepsDesired ==
    \A i \in DiffReports :
        \A ip \in Range(reports[i].desired) \ Range(reports[i].addFailed) :
            ip \in Range(reports[i].written)

\* C3: the value written for an interface holds no address whose add failed
\* in the cycle.
C3_WrittenDropsFailedAdd ==
    \A i \in DiffReports :
        \A ip \in Range(reports[i].addFailed) : ip \notin Range(reports[i].written)

\* C4: an address whose remove failed is in the value set() writes and in
\* the persisted record after the cycle.
C4_FailedRemoveStaysTracked ==
    \A i \in DiffReports :
        \A ip \in Range(reports[i].rmFailed) :
            /\ ip \in Range(reports[i].written)
            /\ registry[MacOf(reports[i])].exists
            /\ ip \in Range(registry[MacOf(reports[i])].val)

\* A remove failed in a cycle in which an add failed too, and the record was
\* written.
C4_Witness ==
    \E i \in DiffReports :
        /\ reports[i].rmFailed # <<>>
        /\ reports[i].addFailed # <<>>
        /\ reports[i].writeOk

\* The removes set() issued for the interface of report r.
RemovesIssued(r) == Range(r.rmOk) \cup Range(r.rmFailed)

\* C5 as claimed: set() issues a remove only for an address the agent bound
\* itself.
C5_RemoveOnlyAgentAdded ==
    \A i \in 1..Len(reports) : RemovesIssued(reports[i]) \subseteq reports[i].ownedBefore

\* C5 as amended: set() issues a remove only for an address that is in the
\* persisted record it read for the interface in that cycle and that is not
\* in the desired list.
C5_RemoveOnlyRecorded ==
    \A i \in 1..Len(reports) :
        /\ RemovesIssued(reports[i]) \subseteq Range(reports[i].regFwdIPs)
        /\ RemovesIssued(reports[i]) \cap Range(reports[i].desired) = {}

\* A recorded address was removed while an address bound for other reasons,
\* neither recorded nor desired, stays bound.
C5_Witness ==
    \E i \in DiffReports :
        /\ reports[i].rmOk # <<>>
        /\ \E ip \in Range(live[MacOf(reports[i])]) :
              /\ ip \notin Range(reports[i].regFwdIPs)
              /\ ip \notin Range(reports[i].desired)

\* C6: whatever adds and removes fail, set() does not abort: every attempt of
\* every interface it took to the diff step is made and its record is handed
\* to the registry, and once the loop is over every declared interface was
\* visited.
C6_FailuresNeverAbort ==
    /\ pc # "crashed"
    /\ result # "panic"
    /\ \A i \in 1..Len(reports) :
          reports[i].kind \notin {"parse", "read", "noiface", "addrs"} =>
             /\ reports[i].kind = "diff"
             /\ Len(reports[i].addOk) + Len(reports[i].addFailed) = Len(reports[i].toAdd)
             /\ Len(reports[i].rmOk) + Len(reports[i].rmFailed) = Len(reports[i].toRm)
    /\ (pc = "loop" /\ idx > Len(newMetadata.NetworkInterfaces)) =>
          Len(reports) = Len(newMetadata.NetworkInterfaces)

\* C8: when the previous pass over an interface made every add and remove
\* with success, nothing outside changed the interface since, and the desired
\* list is the same, the pass issues no add and no remove and writes the same
\* value again.
C8_SecondPassIdle ==
    \A i \in 1..Len(reports) :
        (/\ reports[i].kind \in {"diff", "panic"}
         /\ reports[i].prev.ok
         /\ reports[i].prev.desired = reports[i].desired) =>
            /\ reports[i].kind = "diff"
            /\ reports[i].toAdd = <<>>
            /\ reports[i].toRm = <<>>
            /\ reports[i].written = reports[i].prev.written

\* The second pass follows a pass that added and removed addresses.
C8_Witness ==
    \E i \in DiffReports :
        /\ reports[i].prev.ok
        /\ reports[i].prev.desired = reports[i].desired
        /\ reports[i].desired # <<>>
        /\ reports[i].regFwdIPs = reports[i].desired
        /\ \E ip \in Range(live[MacOf(reports[i])]) : ip \notin Range(reports[i].desired)

\* Every declared interface of the system has its desired addresses bound,
\* none of the addresses the agent bound and that are not desired any more,
\* and the desired list as its record.
Converged ==
    \A i \in 1..Len(newMetadata.NetworkInterfaces) :
        LET ni == newMetadata.NetworkInterfaces[i]
            p  == ParseMAC(ni.Mac)
        IN  (p.ok /\ p.mac \in SystemIfs) =>
               /\ Range(ni.ForwardedIps) \subseteq Range(live[p.mac])
               /\ agentAdded[p.mac] \subseteq Range(ni.ForwardedIps)
               /\ registry[p.mac].exists
               /\ registry[p.mac].val = ni.ForwardedIps

\* A pass of set() that found nothing to do and changed nothing.
NoOpReport(r) ==
    \/ r.kind \in {"parse", "noiface"}
    \/ /\ r.kind = "diff"
       /\ r.toAdd = <<>>
       /\ r.toRm = <<>>
       /\ registry[MacOf(r)].exists
       /\ r.written = r.regFwdIPs

\* The desired lists are fixed, nothing else touches the interfaces, every OS
\* call succeeds, and a whole call of set() changed nothing: every later call
\* does what this one did.
Quiescent ==
    /\ stable
    /\ ~faulty
    /\ pc = "loop"
    /\ idx > Len(newMetadata.NetworkInterfaces)
    /\ \A i \in 1..Len(reports) : NoOpReport(reports[i])

\* C7: once the desired lists are fixed, nothing else changes the interfaces,
\* set() keeps being invoked and every OS call succeeds, the interfaces
\* converge: the state set() comes to rest in is the converged one (here
\* even for the runs in which no registry write ever failed).
C7_RestIsConverged == (Quiescent /\ ~lostWrite) => Converged

\* C11: the filter run by set() excludes addresses by the resolved failover
\* settings (local override, then instance attribute, then project
\* attribute).
C11_FilterUsesResolved ==
    flt.done =>
        LET listed == ListedIPs(parseWSFCAddresses(mgr.a))
            enabled == parseWSFCEnable(mgr.a)
        IN  \A i \in 1..Len(flt.before) :
               flt.after[i].ForwardedIps =
                  IF listed # {} THEN KeepUnlisted(flt.before[i].ForwardedIps, listed)
                  ELSE IF enabled THEN <<>>
                       ELSE flt.before[i].ForwardedIps

\* The declared lists of a NetworkInterfaces value, a nil list and an empty
\* list being the same list.
DeclaredLists(nis) ==
    [i \in 1..Len(nis) |-> [Mac |-> nis[i].Mac, ForwardedIps |-> nis[i].ForwardedIps]]

\* What diff() left in its memory is what it resolved in this call.
MemoIsCurrent ==
    /\ mgr.oldWSFCEnable = parseWSFCEnable(mgr.last.a)
    /\ mgr.oldWSFCAddresses = parseWSFCAddresses(mgr.last.a)

\* The resolved failover settings differ from those of the previous call.
SettingsChanged ==
    \/ parseWSFCEnable(mgr.last.a) # mgr.last.prevEnable
    \/ parseWSFCAddresses(mgr.last.a) # mgr.last.prevAddresses

\* C13 as claimed: diff() returns true exactly when the declared lists differ
\* or a resolved failover setting differs from the previous call's, and it
\* always remembers the current settings.
C13_DiffIffChanged ==
    mgr.last.op = "diff" =>
        /\ mgr.last.ret <=>
              (DeclaredLists(mgr.last.new) # DeclaredLists(mgr.last.old) \/ SettingsChanged)
        /\ MemoIsCurrent

\* C13 as amended: the same, a nil forwarded-IP list differing from an empty
\* one.
C13_DiffIffDeepChanged ==
    mgr.last.op = "diff" =>
        /\ mgr.last.ret <=> (mgr.last.new # mgr.last.old \/ SettingsChanged)
        /\ MemoIsCurrent

\* A call that found nothing changed, with failover settings in force.
C13_Witness ==
    /\ mgr.last.op = "diff"
    /\ ~mgr.last.ret
    /\ mgr.last.prevEnable
    /\ mgr.last.prevAddresses # <<>>
    /\ mgr.last.new[1].ForwardedIps # <<>>

\* The value of the first of three parse results that is ok, dflt when none is.
FirstParsed(ps, dflt) ==
    IF ps[1].ok THEN ps[1].val
    ELSE IF ps[2].ok THEN ps[2].val
         ELSE IF ps[3].ok THEN ps[3].val
              ELSE dflt

\* C14: the enable flag and the disabled flag resolve to the first source, in
\* the order local override, instance, project, that parses; with none the
\* enable flag is false and the disabled flag what disabled() returned before.
C14_FirstParseableWins ==
    /\ mgr.last.op = "enable" =>
          mgr.last.ret = FirstParsed(<<IniBool(mgr.last.a.config.wsfcEnable),
                                       ParseBool(mgr.last.a.instance.EnableWSFC),
                                       ParseBool(mgr.last.a.project.EnableWSFC)>>, FALSE)
    /\ mgr.last.op = "disabled" =>
          mgr.last.ret = FirstParsed(<<ParseBool(mgr.last.a.config.disable),
                                       ParseBool(mgr.last.a.instance.DisableAddressManager),
                                       ParseBool(mgr.last.a.project.DisableAddressManager)>>,
                                     mgr.last.prevRet)

\* Two sources are present and do not parse, the third one decides.
C14_Witness ==
    /\ mgr.last.op = "enable"
    /\ mgr.last.a.config.wsfcEnable = "maybe"
    /\ mgr.last.a.instance.EnableWSFC = "yes"
    /\ mgr.last.a.project.EnableWSFC = "true"
    /\ mgr.last.ret

\* C15: a call of disabled() emits a status notification exactly when the
\* value it returns differs from the value the previous call returned.
C15_NotifyOnTransition ==
    mgr.last.op = "disabled" => (mgr.last.status <=> (mgr.last.ret # mgr.last.prevRet))

\* A call with no parseable source after a call that returned true: the
\* value stays true and nothing is notified.
C15_Witness ==
    /\ mgr.last.op = "disabled"
    /\ mgr.last.ret
    /\ ~mgr.last.status
    /\ ~ParseBool(mgr.last.a.config.disable).ok
    /\ ~ParseBool(mgr.last.a.instance.DisableAddressManager).ok
    /\ ~ParseBool(mgr.last.a.project.DisableAddressManager).ok

\* The interfaces the running call of set() skipped.
SkipKinds == {"parse", "read", "noiface", "addrs"}

C17_SkipLeavesInterface ==
    [][(/\ pc = "loop"
        /\ Len(reports') = Len(reports) + 1
        /\ reports'[Len(reports')].kind \in SkipKinds)
          => (/\ registry' = registry
              /\ live' = live
              /\ pc' = "loop"
              /\ idx' = idx + 1)]_vars

\* After a skipped interface a later one was reconciled.
C17_Witness ==
    \E i, j \in 1..Len(reports) :
        /\ i < j
        /\ reports[i].kind \in SkipKinds
        /\ reports[j].kind = "diff"
        /\ reports[j].addOk # <<>>
        /\ reports[j].writeOk

\* The attempts the add-set and the remove-set call for, in their order.
AttemptsOf(r) ==
    [k \in 1..(Len(r.toAdd) + Len(r.toRm)) |->
        IF k <= Len(r.toAdd) THEN [op |-> "add", ip |-> r.toAdd[k]]
        ELSE [op |-> "rm", ip |-> r.toRm[k - Len(r.toAdd)]]]

\* C19: for an interface at the diff step set() makes every add attempt, then
\* every remove attempt, then one write; no address is attempted twice.
C19_AddsRemovesThenWrite ==
    \A i \in 1..Len(reports) :
        reports[i].kind \notin SkipKinds =>
            LET ops == reports[i].ops
                n == Len(ops)
            IN  /\ n = Len(reports[i].toAdd) + Len(reports[i].toRm) + 1
                /\ ops[n].op = "write"
                /\ [k \in 1..(n - 1) |-> [op |-> ops[k].op, ip |-> ops[k].ip]] = AttemptsOf(reports[i])
                /\ \A k, l \in 1..(n - 1) : k # l => ops[k].ip # ops[l].ip

\* C12: in a cycle in which disabled() returned true nothing is bound or
\* unbound, no list of the snapshot is filtered and no record is written:
\* until the next snapshot is fetched the reconciler stays as it is.
C12_DisabledRunsNothing ==
    [][mgr.gate = "disabled" =>
          /\ registry' = registry
          /\ live' = live
          /\ pc' = "idle"
          /\ (newMetadata' = newMetadata \/ mgr'.phase = "gate")]_vars

\* The cycle was stopped at the gate while its snapshot asks for work: an
\* address to bind, and a list the filter would change.
C12_Witness ==
    /\ mgr.gate = "disabled"
    /\ mgr.phase = "wait"
    /\ applyWSFCFilter(newMetadata) # newMetadata.NetworkInterfaces
    /\ \E ip \in Range(applyWSFCFilter(newMetadata)[1].ForwardedIps) : ip \notin Range(live["aa"])

\* C18: the step of set() that returns the enumeration error leaves the
\* lists of the snapshot, the bound addresses, the records and the bad-input
\* set as they are.
C18_EnumerationErrorChangesNothing ==
    [][(pc = "idle" /\ result' = "err") =>
          /\ newMetadata' = newMetadata
          /\ registry' = registry
          /\ live' = live
          /\ badMAC' = badMAC
          /\ pc' = "idle"]_vars

\* set() returned the error on a snapshot the filter would have changed.
C18_Witness ==
    /\ result = "err"
    /\ pc = "idle"
    /\ applyWSFCFilter(newMetadata) # newMetadata.NetworkInterfaces
    /\ registry["aa"].exists

\* C20: after a cycle in which set() processed its snapshot, a fetched
\* snapshot that declares the same lists under the same failover settings
\* makes diff() return false.
C20_FilterKeepsDiffQuiet ==
    (/\ mgr.phase \in {"set", "wait"}
     /\ mgr.gate = "none"
     /\ mgr.last.op = "diff"
     /\ mgr.ran
     /\ mgr.same) => ~mgr.last.ret

====
